---- MODULE Spec2Model ----
(***************************************************************************)
(* A model of sotodlib's chunked observation loader                        *)
(* (sotodlib/io/g3tsmurf_utils.py, get_batch), of the level-3 housekeeping *)
(* batch script (sotodlib/site_pipeline/make_level3_hk.py, main) and of    *)
(* the two collaborators they rest on: the manifest index (ManifestDb) and *)
(* the axis-aligned container (AxisManager).                               *)
(***************************************************************************)
EXTENDS Integers, Sequences, FiniteSets, TLC

VARIABLES
    \* ---- get_batch: the generator and its consumer
    args,        \* the keyword arguments of the call; status: load_file_args holds 'status'
    obs_dets,    \* len(obs.tunesets[0].dets) of the observation in the archive
    obs_samps,   \* obs.n_samples of the observation in the archive
    pc,          \* where the generator stands
    session,     \* the archive session: "none", "open", "closed"
    loc,         \* the generator's local variables (lines 161-193)
    pos,         \* <<index into det_chunks, index into samp_chunks>> of the two for loops
    requested,   \* number of next() calls of the consumer
    loads,       \* number of load_file invocations
    yielded,     \* the chunks handed to the consumer, in order
    err,         \* the exception that left the generator, or "none"
    \* ---- the manifest index (ManifestDb)
    scheme,      \* match kind of the index's key field: "Exact" or "Range"
    man_db,      \* the entries, oldest first: [key, locator, superseded]
    add_result,  \* how the last add_entry ended: "none", "ok", "DuplicateEntryError"
    last_call,   \* the last add_entry call and the index it met
    latest,      \* per key, the locator of its last successful add_entry
    q_value,     \* the value of the last query, None before one
    q_result,    \* what that query returned: positions of man_db, best first
    \* ---- make_level3_hk.main: the batch loop
    obs_list,    \* the observations the obsdb query returned (their obs_id)
    taken,       \* how many of them the for loop has taken
    mpc,         \* where main stands; "aborted": left by an exception
    overwrite,   \* the --overwrite flag
    verbose,     \* the --verbose level (lines 67-74)
    entries_before, \* how many entries the index held when main opened it (line 110)
    saved,       \* the obs_id groups present in the output h5 files
    log,         \* the lines 179 and 182 the logger emitted: <<obs_id, "saved" or "error">>
    processed,   \* the obs_id whose loop body was entered, in order
    \* ---- the container (AxisManager) and its merge
    target,      \* the container merge is called on
    other,       \* the container merged into it
    merge_result, \* how the last merge ended: "none", "ok" or the error raised
    before       \* the two containers as the last merge met them

batchVars == <<args, obs_dets, obs_samps, pc, session, loc, pos, requested,
               loads, yielded, err>>

indexVars == <<scheme, man_db, add_result, last_call, latest, q_value, q_result>>

mainVars == <<obs_list, taken, mpc, overwrite, verbose, entries_before, saved, log,
             processed>>

mergeVars == <<target, other, merge_result, before>>

vars == <<batchVars, indexVars, mainVars, mergeVars>>

----------------------------------------------------------------------------
\* Bounds of the model.

MaxDets == 4
MaxSamps == 3
MaxCtl == 3
MaxRam == 12
MaxLoopSamps == 8
MaxEntries == 3
MaxObs == 2
MaxAxisLen == 2

----------------------------------------------------------------------------
\* get_batch, lines 161-193: the plan of the chunks.

\* Python's None for an integer argument.
None == -1
\* Python's None for a list argument (det_chunks, samp_chunks).
NoneList == << <<None, None>> >>

Min(a, b) == IF a < b THEN a ELSE b

\* int(np.ceil(a / b)) for positive b: the float quotient is exact at these sizes.
CeilDiv(a, b) == (a + b - 1) \div b

\* The list comprehension without the min(): every chunk n long.
ChunkList_NoClamp(n, k, total) == [c \in 1..k |-> <<(c - 1) * n, c * n>>]

\* [(i*n, min((i+1)*n, total)) for i in range(k)], as a 1-based sequence of
\* half-open <<start, stop>> pairs (range(start, stop) for detectors).
ChunkList(n, k, total) == [c \in 1..k |-> <<(c - 1) * n, Min(c * n, total)>>]

\* The locals before line 161: the arguments as passed.
Locals(a) ==
    [pts_limit |-> None,
     n_det_chunks |-> a.n_det_chunks, n_samp_chunks |-> a.n_samp_chunks,
     n_dets |-> a.n_dets, n_samps |-> a.n_samps,
     det_chunks |-> a.det_chunks, samp_chunks |-> a.samp_chunks]

\* Line 162: the bytes one sample point of one detector is counted as.
BytesPerPoint == 4

\* Lines 162-165: the start of the RAM-based sizing.
RamInit(L, ram_limit, osamps) ==
    [L EXCEPT !.pts_limit = ram_limit \div BytesPerPoint,
              !.n_samp_chunks = 1,
              !.n_samps = osamps,
              !.n_dets = (ram_limit \div BytesPerPoint) \div osamps]

\* Line 168-169 divide by n_samps: the body raises ZeroDivisionError when
\* obs_samps // (n_samp_chunks + 1) is 0.
RamLoopRaises(L, osamps) == osamps \div (L.n_samp_chunks + 1) = 0

\* A pass of the while loop that forgets to grow n_samp_chunks.
RamLoopBody_NoIncrement(L, osamps) ==
    [L EXCEPT !.n_samps = osamps \div (L.n_samp_chunks + 1),
              !.n_dets = L.pts_limit \div (osamps \div (L.n_samp_chunks + 1))]

\* Lines 167-169: one pass of the while loop.
RamLoopBody(L, osamps) ==
    [L EXCEPT !.n_samp_chunks = L.n_samp_chunks + 1,
              !.n_samps = osamps \div (L.n_samp_chunks + 1),
              !.n_dets = L.pts_limit \div (osamps \div (L.n_samp_chunks + 1))]

\* Line 170.
RamFinish(L, odets) == [L EXCEPT !.n_det_chunks = CeilDiv(odets, L.n_dets)]

\* The chunk count applied only when no explicit det_chunks list was passed.
ByDetChunkCount_KeepExplicit(L, odets) ==
    IF L.n_det_chunks # None /\ L.det_chunks = NoneList
    THEN [L EXCEPT !.n_dets = CeilDiv(odets, L.n_det_chunks),
                   !.det_chunks = ChunkList(CeilDiv(odets, L.n_det_chunks),
                                            L.n_det_chunks, odets)]
    ELSE L

\* Lines 172-175.
ByDetChunkCount(L, odets) ==
    IF L.n_det_chunks # None
    THEN [L EXCEPT !.n_dets = CeilDiv(odets, L.n_det_chunks),
                   !.det_chunks = ChunkList(CeilDiv(odets, L.n_det_chunks),
                                            L.n_det_chunks, odets)]
    ELSE L

\* Lines 176-179.
BySampChunkCount(L, osamps) ==
    IF L.n_samp_chunks # None
    THEN [L EXCEPT !.n_samps = CeilDiv(osamps, L.n_samp_chunks),
                   !.samp_chunks = ChunkList(CeilDiv(osamps, L.n_samp_chunks),
                                             L.n_samp_chunks, osamps)]
    ELSE L

\* Lines 181-184.
ByDetChunkSize(L, odets) ==
    IF L.n_dets # None
    THEN [L EXCEPT !.n_det_chunks = CeilDiv(odets, L.n_dets),
                   !.det_chunks = ChunkList(L.n_dets, CeilDiv(odets, L.n_dets), odets)]
    ELSE L

\* Lines 185-188.
BySampChunkSize(L, osamps) ==
    IF L.n_samps # None
    THEN [L EXCEPT !.n_samp_chunks = CeilDiv(osamps, L.n_samps),
                   !.samp_chunks = ChunkList(L.n_samps, CeilDiv(osamps, L.n_samps), osamps)]
    ELSE L

\* Lines 190-193.
DefaultChunks(L, odets, osamps) ==
    [L EXCEPT !.det_chunks = IF L.det_chunks = NoneList
                             THEN << <<0, odets>> >> ELSE L.det_chunks,
              !.samp_chunks = IF L.samp_chunks = NoneList
                              THEN << <<0, osamps>> >> ELSE L.samp_chunks]

\* Lines 172-193 in one piece.
PlanChunks(L, odets, osamps) ==
    DefaultChunks(
        BySampChunkSize(
            ByDetChunkSize(
                BySampChunkCount(ByDetChunkCount(L, odets), osamps),
                odets),
            osamps),
        odets, osamps)

\* Lines 166-169 run to their end: the locals when n_dets becomes positive, or
\* raised when the division by zero is met first.
RECURSIVE RamSearch(_, _)
RamSearch(L, osamps) ==
    IF L.n_dets # 0 THEN [raised |-> FALSE, L |-> L]
    ELSE IF RamLoopRaises(L, osamps) THEN [raised |-> TRUE, L |-> L]
    ELSE RamSearch(RamLoopBody(L, osamps), osamps)

\* Lines 161-193 as a function of the arguments and the observation's size:
\* the plan of a call, or raised.
PlanOf(a, odets, osamps) ==
    IF a.ram_limit = None
    THEN [raised |-> FALSE, L |-> PlanChunks(Locals(a), odets, osamps)]
    ELSE LET r == RamSearch(RamInit(Locals(a), a.ram_limit, osamps), osamps)
         IN  IF r.raised THEN r
             ELSE [raised |-> FALSE,
                   L |-> PlanChunks(RamFinish(r.L, odets), odets, osamps)]

----------------------------------------------------------------------------
\* get_batch as a generator driven by its consumer.

\* An explicit det_chunks / samp_chunks list a caller may pass: the first
\* position alone, then the whole axis.
ExplicitChunks(total) == << <<0, 1>>, <<0, total>> >>

\* The integer controls a call may pass: None or a positive number.
Ctl(max) == {None} \cup (1..max)

\* The first next(): lines 141-150, the session is opened and the observation
\* and its files are read.
Start ==
    /\ pc = "created"
    /\ requested' = requested + 1
    /\ session' = "open"
    /\ pc' = "queried"
    /\ UNCHANGED <<args, obs_dets, obs_samps, loc, pos, loads, yielded, err>>
    /\ UNCHANGED <<indexVars, mainVars, mergeVars>>

\* The first next() when .one() finds no observation or obs.tunesets is empty
\* (lines 143, 149): the exception leaves the generator before line 151.
StartFails ==
    /\ pc = "created"
    /\ requested' = requested + 1
    /\ session' = "open"
    /\ pc' = "raised"
    /\ err' = "LookupError"
    /\ UNCHANGED <<args, obs_dets, obs_samps, loc, pos, loads, yielded>>
    /\ UNCHANGED <<indexVars, mainVars, mergeVars>>

\* Line 151.
CloseSession ==
    /\ pc = "queried"
    /\ session' = "closed"
    /\ pc' = "sizing"
    /\ UNCHANGED <<args, obs_dets, obs_samps, loc, pos, requested, loads, yielded, err>>
    /\ UNCHANGED <<indexVars, mainVars, mergeVars>>

\* Lines 161-165, ram_limit given.
RamStart ==
    /\ pc = "sizing"
    /\ args.ram_limit # None
    /\ loc' = RamInit(loc, args.ram_limit, obs_samps)
    /\ pc' = "ram_loop"
    /\ UNCHANGED <<args, obs_dets, obs_samps, session, pos, requested, loads, yielded, err>>
    /\ UNCHANGED <<indexVars, mainVars, mergeVars>>

\* Line 161, ram_limit is None.
NoRam ==
    /\ pc = "sizing"
    /\ args.ram_limit = None
    /\ pc' = "plan"
    /\ UNCHANGED <<args, obs_dets, obs_samps, session, loc, pos, requested, loads, yielded, err>>
    /\ UNCHANGED <<indexVars, mainVars, mergeVars>>

\* Lines 166-169: one pass of the while loop.
RamLoop ==
    /\ pc = "ram_loop"
    /\ loc.n_dets = 0
    /\ ~RamLoopRaises(loc, obs_samps)
    /\ loc' = RamLoopBody(loc, obs_samps)
    /\ UNCHANGED <<args, obs_dets, obs_samps, pc, session, pos, requested, loads, yielded, err>>
    /\ UNCHANGED <<indexVars, mainVars, mergeVars>>

\* Lines 166-169: the pass in which n_samps becomes 0 and line 169 divides by it.
RamLoopZeroDiv ==
    /\ pc = "ram_loop"
    /\ loc.n_dets = 0
    /\ RamLoopRaises(loc, obs_samps)
    /\ pc' = "raised"
    /\ err' = "ZeroDivisionError"
    /\ UNCHANGED <<args, obs_dets, obs_samps, session, loc, pos, requested, loads, yielded>>
    /\ UNCHANGED <<indexVars, mainVars, mergeVars>>

\* Line 166 false, then line 170.
RamDone ==
    /\ pc = "ram_loop"
    /\ loc.n_dets # 0
    /\ loc' = RamFinish(loc, obs_dets)
    /\ pc' = "plan"
    /\ UNCHANGED <<args, obs_dets, obs_samps, session, pos, requested, loads, yielded, err>>
    /\ UNCHANGED <<indexVars, mainVars, mergeVars>>

\* Lines 172-193.
Plan ==
    /\ pc = "plan"
    /\ loc' = PlanChunks(loc, obs_dets, obs_samps)
    /\ pc' = "planned"
    /\ UNCHANGED <<args, obs_dets, obs_samps, session, pos, requested, loads, yielded, err>>
    /\ UNCHANGED <<indexVars, mainVars, mergeVars>>

\* Lines 196-208: the status is read and the two for loops are entered.
EnterLoop ==
    /\ pc = "planned"
    /\ pos' = <<1, 1>>
    /\ pc' = "loop"
    /\ UNCHANGED <<args, obs_dets, obs_samps, session, loc, requested, loads, yielded, err>>
    /\ UNCHANGED <<indexVars, mainVars, mergeVars>>

\* Lines 199-202 when load_file_args holds no 'status' (the default, and any
\* later call with a dict an earlier call popped 'status' from): the status is
\* read from the observation's first file.  filenames[0] raises IndexError
\* when the observation has no files, and SmurfStatus.from_file raises when
\* the file cannot be read; the exception leaves the generator before the
\* first yield.
StatusFails ==
    /\ pc = "planned"
    /\ ~args.status
    /\ pc' = "raised"
    /\ err' \in {"IndexError", "FileNotFoundError"}
    /\ UNCHANGED <<args, obs_dets, obs_samps, session, loc, pos, requested, loads, yielded>>
    /\ UNCHANGED <<indexVars, mainVars, mergeVars>>

\* The for loops stand at a chunk to hand out.
AtChunk ==
    /\ pos[1] \in 1..Len(loc.det_chunks)
    /\ pos[2] \in 1..Len(loc.samp_chunks)

\* load_file invocations after handing out one more chunk (lines 210-220):
\* none in test mode.
LoadsAfterYield == IF args.test THEN loads ELSE loads + 1

\* Lines 208-220: the chunk at pos is loaded (or, with test, only named) and
\* yielded; the generator is suspended at the yield.
Yield ==
    /\ pc = "loop"
    /\ AtChunk
    /\ loads' = LoadsAfterYield
    /\ yielded' = Append(yielded, <<loc.det_chunks[pos[1]], loc.samp_chunks[pos[2]]>>)
    /\ pc' = "suspended"
    /\ UNCHANGED <<args, obs_dets, obs_samps, session, loc, pos, requested, err>>
    /\ UNCHANGED <<indexVars, mainVars, mergeVars>>

\* Lines 213-220 when load_file raises: the exception is not a GeneratorExit
\* and leaves the generator.
LoadFails ==
    /\ pc = "loop"
    /\ AtChunk
    /\ ~args.test
    /\ loads' = loads + 1
    /\ pc' = "raised"
    /\ err' = "LoadError"
    /\ UNCHANGED <<args, obs_dets, obs_samps, session, loc, pos, requested, yielded>>
    /\ UNCHANGED <<indexVars, mainVars, mergeVars>>

\* Line 208 with det_chunks used up: the generator returns (StopIteration).
Exhausted ==
    /\ pc = "loop"
    /\ pos[1] > Len(loc.det_chunks)
    /\ pc' = "finished"
    /\ UNCHANGED <<args, obs_dets, obs_samps, session, loc, pos, requested, loads, yielded, err>>
    /\ UNCHANGED <<indexVars, mainVars, mergeVars>>

\* The two loops swapped: det_chunks as the inner loop.
Advance_DetInner(p) ==
    IF p[1] < Len(loc.det_chunks) THEN <<p[1] + 1, p[2]>> ELSE <<1, p[2] + 1>>

\* The position of the for loops after the chunk at p: the inner loop over
\* samp_chunks moves first.
Advance(p) ==
    IF p[2] < Len(loc.samp_chunks) THEN <<p[1], p[2] + 1>> ELSE <<p[1] + 1, 1>>

\* A further next(): the generator resumes after the yield.
NextChunk ==
    /\ pc = "suspended"
    /\ requested' = requested + 1
    /\ pos' = Advance(pos)
    /\ pc' = "loop"
    /\ UNCHANGED <<args, obs_dets, obs_samps, session, loc, loads, yielded, err>>
    /\ UNCHANGED <<indexVars, mainVars, mergeVars>>

\* A generator that answers GeneratorExit by loading the next chunk and
\* yielding it: close() then raises RuntimeError.
AfterClose_KeepsLoading ==
    [pc |-> "closed", err |-> "RuntimeError", loads |-> loads + 1]

\* What close() leaves of a suspended generator: GeneratorExit is raised at the
\* yield and caught at lines 221-222, and the generator returns.
AfterClose == [pc |-> "closed", err |-> "none", loads |-> loads]

\* The consumer abandons the sequence (close(), or the generator is dropped):
\* at a yield, or before the first next(), when no line has run.
Close ==
    /\ pc \in {"created", "suspended"}
    /\ pc' = AfterClose.pc
    /\ err' = AfterClose.err
    /\ loads' = AfterClose.loads
    /\ UNCHANGED <<args, obs_dets, obs_samps, session, loc, pos, requested, yielded>>
    /\ UNCHANGED <<indexVars, mainVars, mergeVars>>

----------------------------------------------------------------------------
\* The container: axes (name -> identity) and fields (name -> data bound to
\* one axis), with create, wrap and merge.

AxisNames == {"dets", "samps"}
FieldNames == {"X", "Y"}
\* The identity of an axis: the labels of its positions; NoAxis where the
\* container has no axis of that name.
NoAxis == <<>>
Identities == {[n \in 1..len |-> n] : len \in 1..MaxAxisLen}
\* A field: one value per position of the axis it is bound to; NoField where
\* the container has no field of that name.
NoField == [data |-> <<>>, axis |-> "none"]
Fill == {0, 1}

\* create(axes): a container with these axes and no field.
create(axes) == [axes |-> axes, fields |-> [f \in FieldNames |-> NoField]]

EmptyContainer == create([a \in AxisNames |-> NoAxis])

\* wrap(name, data, axis): AxisMismatchError when the axis is absent or the
\* length disagrees, DuplicateFieldError when the name is taken.
wrap(c, name, data, axis) ==
    IF c.axes[axis] = NoAxis \/ Len(data) # Len(c.axes[axis])
    THEN [result |-> "AxisMismatchError", container |-> c]
    ELSE IF c.fields[name] # NoField
    THEN [result |-> "DuplicateFieldError", container |-> c]
    ELSE [result |-> "ok",
          container |-> [c EXCEPT !.fields[name] = [data |-> data, axis |-> axis]]]

\* Two axes of one name are compatible when their identities are identical.
AxisConflict(t, o) ==
    \E a \in AxisNames :
        t.axes[a] # NoAxis /\ o.axes[a] # NoAxis /\ t.axes[a] # o.axes[a]

\* A field of o whose name t already holds with other content.
FieldConflict(t, o) ==
    \E f \in FieldNames :
        t.fields[f] # NoField /\ o.fields[f] # NoField /\ t.fields[f] # o.fields[f]

\* t with the axes of o that t lacks.
WithAxesOf(t, o) ==
    [t EXCEPT !.axes = [a \in AxisNames |->
                           IF t.axes[a] = NoAxis THEN o.axes[a] ELSE t.axes[a]]]

\* t with the fields of o that t lacks.
WithFieldsOf(t, o) ==
    [t EXCEPT !.fields = [f \in FieldNames |->
                             IF t.fields[f] = NoField THEN o.fields[f]
                             ELSE t.fields[f]]]

\* A merge that adopts as it goes and stops at the conflicting field: the
\* axes and the fields taken before it stay in the target.
merge_AdoptsBeforeConflict(t, o) ==
    IF AxisConflict(t, o) THEN [result |-> "AxisConflictError", target |-> t]
    ELSE IF FieldConflict(t, o)
    THEN [result |-> "FieldConflictError", target |-> WithAxesOf(t, o)]
    ELSE [result |-> "ok", target |-> WithFieldsOf(WithAxesOf(t, o), o)]

\* merge(other): AxisConflictError when a shared axis is incompatible,
\* FieldConflictError when a shared field is not bit-identical, both without
\* touching the target; otherwise the axes and fields the target lacks are
\* adopted and bit-identical shared fields are left as they are.
merge(t, o) ==
    IF AxisConflict(t, o) THEN [result |-> "AxisConflictError", target |-> t]
    ELSE IF FieldConflict(t, o) THEN [result |-> "FieldConflictError", target |-> t]
    ELSE [result |-> "ok", target |-> WithFieldsOf(WithAxesOf(t, o), o)]

\* What `before` holds while no merge has run since the last wrap.
NoMerge == [target |-> EmptyContainer, other |-> EmptyContainer]

\* The data a caller wraps on an axis of container c: one value repeated.
DataFor(c, axis, v) == [n \in 1..Len(c.axes[axis]) |-> v]

\* target.wrap(...) that succeeds.
WrapTarget ==
    /\ \E name \in FieldNames, axis \in AxisNames, v \in Fill :
         /\ wrap(target, name, DataFor(target, axis, v), axis).result = "ok"
         /\ target' = wrap(target, name, DataFor(target, axis, v), axis).container
    /\ merge_result' = "none"
    /\ before' = NoMerge
    /\ UNCHANGED other
    /\ UNCHANGED <<batchVars, indexVars, mainVars>>

\* other.wrap(...) that succeeds.
WrapOther ==
    /\ \E name \in FieldNames, axis \in AxisNames, v \in Fill :
         /\ wrap(other, name, DataFor(other, axis, v), axis).result = "ok"
         /\ other' = wrap(other, name, DataFor(other, axis, v), axis).container
    /\ merge_result' = "none"
    /\ before' = NoMerge
    /\ UNCHANGED target
    /\ UNCHANGED <<batchVars, indexVars, mainVars>>

\* target.merge(other).
Merge ==
    /\ merge_result = "none"
    /\ target' = merge(target, other).target
    /\ merge_result' = merge(target, other).result
    /\ before' = [target |-> target, other |-> other]
    /\ UNCHANGED other
    /\ UNCHANGED <<batchVars, indexVars, mainVars>>

----------------------------------------------------------------------------
\* The manifest index: one key field, matched exactly or as a half-open range,
\* and one data field (the locator).

\* The observation ids an Exact index is keyed by.
ObsIds == 1..MaxObs
\* The bounds a Range key is built from, and the values queried.
RangeEnds == {0, 50, 100, 150}
RangeKeys == {<<lo, hi>> \in RangeEnds \X RangeEnds : lo < hi}
QueryValues == {0, 50, 75, 100, 149, 200}
Locators == {"a.h5", "b.h5"}
NoLocator == "none"

KeysOf(kind) == IF kind = "Exact" THEN ObsIds ELSE RangeKeys
ValuesOf(kind) == IF kind = "Exact" THEN ObsIds ELSE QueryValues

\* An index that no operation has touched.
EmptyIndex(kind) ==
    /\ scheme = kind
    /\ man_db = <<>>
    /\ add_result = "none"
    /\ last_call = [key |-> None, locator |-> NoLocator, replace |-> FALSE, db |-> <<>>]
    /\ latest = [key \in KeysOf(kind) |-> NoLocator]
    /\ q_value = None
    /\ q_result = <<>>

\* The positions of the entries of db that are not superseded.
Live(db) == {n \in 1..Len(db) : ~db[n].superseded}

\* Whether the concrete value v satisfies an entry's key: equality for an
\* Exact field, inclusion in [low, high) for a Range field.
Satisfies(kind, key, v) ==
    IF kind = "Exact" THEN key = v ELSE key[1] <= v /\ v < key[2]

\* The specificity of a key: a narrower range is more specific; exact keys
\* are all alike.
Specificity(kind, key) == IF kind = "Exact" THEN 0 ELSE key[1] - key[2]

\* Ties of specificity left to the oldest entry.
Before_OldestFirst(kind, db, m, n) ==
    \/ Specificity(kind, db[m].key) > Specificity(kind, db[n].key)
    \/ /\ Specificity(kind, db[m].key) = Specificity(kind, db[n].key)
       /\ m < n

\* Entry m comes before entry n in a query's result: specificity descending,
\* then insertion recency descending.
Before(kind, db, m, n) ==
    \/ Specificity(kind, db[m].key) > Specificity(kind, db[n].key)
    \/ /\ Specificity(kind, db[m].key) = Specificity(kind, db[n].key)
       /\ m > n

\* The positions of set ps, best first.
RECURSIVE Ordered(_, _, _)
Ordered(kind, db, ps) ==
    IF ps = {} THEN <<>>
    ELSE LET best == CHOOSE m \in ps : \A n \in ps \ {m} : Before(kind, db, m, n)
         IN  <<best>> \o Ordered(kind, db, ps \ {best})

\* query: the live entries the value satisfies, best first; empty when none.
Matches(kind, db, v) ==
    Ordered(kind, db, {n \in Live(db) : Satisfies(kind, db[n].key, v)})

\* The locators a query returns.
query(kind, db, v) ==
    LET ms == Matches(kind, db, v) IN [n \in 1..Len(ms) |-> db[ms[n]].locator]

\* An add_entry that appends whatever is there.
add_entry_NoDuplicateCheck(db, key, locator, replace) ==
    [result |-> "ok",
     db |-> Append(db, [key |-> key, locator |-> locator, superseded |-> FALSE])]

\* add_entry: with an identical live key present it fails unless replace is
\* set, and then the prior entry is superseded; the new entry is appended.
add_entry(db, key, locator, replace) ==
    LET same == {n \in Live(db) : db[n].key = key}
        entry == [key |-> key, locator |-> locator, superseded |-> FALSE]
    IN  IF same # {} /\ ~replace
        THEN [result |-> "DuplicateEntryError", db |-> db]
        ELSE [result |-> "ok",
              db |-> Append([n \in 1..Len(db) |->
                               IF n \in same THEN [db[n] EXCEPT !.superseded = TRUE]
                               ELSE db[n]],
                            entry)]

\* One add_entry call on the index, with the record of it.
CallAddEntry(key, locator, replace) ==
    LET r == add_entry(man_db, key, locator, replace)
    IN  /\ man_db' = r.db
        /\ add_result' = r.result
        /\ last_call' = [key |-> key, locator |-> locator, replace |-> replace,
                         db |-> man_db]
        /\ latest' = IF r.result = "ok" THEN [latest EXCEPT ![key] = locator]
                     ELSE latest
        /\ q_value' = None
        /\ q_result' = <<>>
        /\ UNCHANGED scheme

AddEntry ==
    /\ Len(man_db) < MaxEntries
    /\ \E key \in KeysOf(scheme), locator \in Locators, replace \in BOOLEAN :
         CallAddEntry(key, locator, replace)
    /\ UNCHANGED <<batchVars, mainVars, mergeVars>>

Query ==
    /\ \E v \in ValuesOf(scheme) :
         /\ q_value' = v
         /\ q_result' = Matches(scheme, man_db, v)
    /\ UNCHANGED <<scheme, man_db, add_result, last_call, latest>>
    /\ UNCHANGED <<batchVars, mainVars, mergeVars>>

----------------------------------------------------------------------------
\* make_level3_hk.main from line 141 on: the loop over the observations.

\* Lines 174-175: the h5 file an observation's group is written to, named by
\* the first four digits of the obs_id's timestamp (here: by its parity).
FileOf(obs_id) == IF obs_id % 2 = 1 THEN "a.h5" ELSE "b.h5"

\* The obs_id of the observation the loop body works on (line 142).
obs_id == obs_list[taken]

\* Lines 141-142: the for loop takes the next observation.
NextObs ==
    /\ mpc = "for"
    /\ taken < Len(obs_list)
    /\ taken' = taken + 1
    /\ processed' = Append(processed, obs_list[taken + 1])
    /\ mpc' = "get_meta"
    /\ UNCHANGED <<obs_list, verbose, entries_before, overwrite, saved, log>>
    /\ UNCHANGED <<batchVars, indexVars, mergeVars>>

\* Line 141 with the list used up: main returns.
LoopEnd ==
    /\ mpc = "for"
    /\ taken = Len(obs_list)
    /\ mpc' = "done"
    /\ UNCHANGED <<obs_list, verbose, entries_before, taken, overwrite, saved, log, processed>>
    /\ UNCHANGED <<batchVars, indexVars, mergeVars>>

\* A try block whose entry is added without the container being saved.
StepAfter_SkipsSave(step) ==
    CASE step = "get_meta" -> "get_obs"
      [] step = "get_obs" -> "make_hkaman"
      [] step = "make_hkaman" -> "wrap"
      [] step = "wrap" -> "add_entry"

\* The statements of the try block that only read: lines 144, 145, 149-159,
\* 161-172, each followed by the next.
StepAfter(step) ==
    CASE step = "get_meta" -> "get_obs"
      [] step = "get_obs" -> "make_hkaman"
      [] step = "make_hkaman" -> "wrap"
      [] step = "wrap" -> "save"

ReadStep ==
    /\ mpc \in {"get_meta", "get_obs", "make_hkaman", "wrap"}
    /\ mpc' = StepAfter(mpc)
    /\ UNCHANGED <<obs_list, verbose, entries_before, taken, overwrite, saved, log, processed>>
    /\ UNCHANGED <<batchVars, indexVars, mergeVars>>

\* Lines 67-74: the levels of --verbose that set the logger's level: ERROR,
\* WARNING, INFO, DEBUG.
Verbosities == 0..3

\* logger.info (line 179) emits a line at the levels INFO and DEBUG only;
\* logger.error (line 182) emits one at every level.
InfoShown == verbose >= 2

\* A run whose except clause ends the loop.
AfterException_Abort == "done"

\* Line 183: where main goes on after the except clause: `continue`, the
\* next pass of the for loop.
AfterException == "for"

\* Line 181: the exception of the current observation is caught; main stands
\* at line 182 with nothing logged yet.
Caught ==
    /\ log' = log
    /\ mpc' = "except"

\* Line 182: logger.error emits the error line (at every level of lines
\* 67-74); main stands at line 183.
LogError ==
    /\ mpc = "except"
    /\ log' = Append(log, <<obs_id, "error">>)
    /\ mpc' = "continue"
    /\ UNCHANGED <<obs_list, verbose, entries_before, taken, overwrite, saved, processed>>
    /\ UNCHANGED <<batchVars, indexVars, mergeVars>>

\* Line 183.
Continue ==
    /\ mpc = "continue"
    /\ mpc' = AfterException
    /\ UNCHANGED <<obs_list, verbose, entries_before, taken, overwrite, saved, log, processed>>
    /\ UNCHANGED <<batchVars, indexVars, mergeVars>>

\* Any statement of the try block raises an exception of class Exception (a
\* missing metadata match, an unreadable file, a field that does not fit, a
\* failed write, ...).
StepRaises ==
    /\ mpc \in {"get_meta", "get_obs", "make_hkaman", "wrap", "save", "add_entry",
                "log_saved"}
    /\ Caught
    /\ UNCHANGED <<obs_list, verbose, entries_before, taken, overwrite, saved, processed>>
    /\ UNCHANGED <<batchVars, indexVars, mergeVars>>

\* An exception that is not of class Exception (KeyboardInterrupt from a
\* signal, SystemExit) is raised where main stands: at a statement of the try
\* block, at line 179 with the entry added, in the except clause before the
\* error line (line 182) or after it (line 183), or at line 141 between two
\* observations.  Line 181 does not catch it and it leaves main; nothing more
\* is logged and no further observation is taken.
StepInterrupted ==
    /\ mpc \in {"for", "get_meta", "get_obs", "make_hkaman", "wrap", "save",
                "add_entry", "log_saved", "except", "continue"}
    /\ mpc' = "aborted"
    /\ UNCHANGED <<obs_list, verbose, entries_before, taken, overwrite, saved, log, processed>>
    /\ UNCHANGED <<batchVars, indexVars, mergeVars>>

\* Line 176 when hkman.save returns: the container is saved as group obs_id.
\* (When save raises, whatever its reason, the step is StepRaises.)
Save ==
    /\ mpc = "save"
    /\ saved' = saved \cup {obs_id}
    /\ mpc' = "add_entry"
    /\ UNCHANGED <<obs_list, verbose, entries_before, taken, overwrite, log, processed>>
    /\ UNCHANGED <<batchVars, indexVars, mergeVars>>

\* Lines 177-178 (and 181 when add_entry raises): the entry is added with
\* replace=overwrite.
AddIndexEntry ==
    /\ mpc = "add_entry"
    /\ CallAddEntry(obs_id, FileOf(obs_id), overwrite)
    /\ IF add_entry(man_db, obs_id, FileOf(obs_id), overwrite).result = "ok"
       THEN /\ log' = log
            /\ mpc' = "log_saved"
       ELSE Caught
    /\ UNCHANGED <<obs_list, verbose, entries_before, taken, overwrite, saved, processed>>
    /\ UNCHANGED <<batchVars, mergeVars>>

\* Line 179: logger.info, the last statement of the try block; the for loop
\* goes on.
LogSaved ==
    /\ mpc = "log_saved"
    /\ log' = IF InfoShown THEN Append(log, <<obs_id, "saved">>) ELSE log
    /\ mpc' = "for"
    /\ UNCHANGED <<obs_list, verbose, entries_before, taken, overwrite, saved, processed>>
    /\ UNCHANGED <<batchVars, indexVars, mergeVars>>

----------------------------------------------------------------------------
\* The specifications: each runs one component and leaves the others idle.

\* No call of get_batch is running.
BatchIdle ==
    /\ obs_dets = 1
    /\ obs_samps = 1
    /\ args = [ram_limit |-> None, n_det_chunks |-> None, n_samp_chunks |-> None,
               n_dets |-> None, n_samps |-> None, det_chunks |-> NoneList,
               samp_chunks |-> NoneList, test |-> FALSE, status |-> FALSE]
    /\ pc = "created"
    /\ session = "none"
    /\ loc = Locals(args)
    /\ pos = <<0, 0>>
    /\ requested = 0
    /\ loads = 0
    /\ yielded = <<>>
    /\ err = "none"

\* An index nobody uses.
IndexIdle == EmptyIndex("Exact")

\* main before it is run.
MainIdle ==
    /\ obs_list = <<>>
    /\ taken = 0
    /\ mpc = "for"
    /\ overwrite = FALSE
    /\ verbose = 2
    /\ entries_before = 0
    /\ saved = {}
    /\ log = <<>>
    /\ processed = <<>>

\* No container is in use.
MergeIdle ==
    /\ target = EmptyContainer
    /\ other = EmptyContainer
    /\ merge_result = "none"
    /\ before = NoMerge

\* The values of ram_limit and of the four integer controls a call is given:
\* every combination when planning, a few when a consumer iterates.
PlanRam == Ctl(MaxRam)
PlanCtl == Ctl(MaxCtl)
BatchRam == {None, 2, 4, 8}
BatchCtl == {None, 2}

\* A call of get_batch on an observation of the archive; nothing has run yet
\* (calling a generator function runs none of its body).
BatchInitOn(samps, rams, ctls, tests, statuses) ==
    /\ obs_dets \in 1..MaxDets
    /\ obs_samps \in samps
    /\ \E explicit \in BOOLEAN :
         args \in [ram_limit : rams, n_det_chunks : ctls, n_samp_chunks : ctls,
                   n_dets : ctls, n_samps : ctls,
                   det_chunks : IF explicit THEN {ExplicitChunks(obs_dets)}
                                ELSE {NoneList},
                   samp_chunks : IF explicit THEN {ExplicitChunks(obs_samps)}
                                 ELSE {NoneList},
                   test : tests, status : statuses]
    /\ pc = "created"
    /\ session = "none"
    /\ loc = Locals(args)
    /\ pos = <<0, 0>>
    /\ requested = 0
    /\ loads = 0
    /\ yielded = <<>>
    /\ err = "none"
    /\ IndexIdle
    /\ MainIdle
    /\ MergeIdle

BatchInit(rams, ctls, tests, statuses) ==
    BatchInitOn(1..MaxSamps, rams, ctls, tests, statuses)

PlanNext ==
    \/ Start \/ StartFails \/ CloseSession
    \/ RamStart \/ NoRam \/ RamLoop \/ RamLoopZeroDiv \/ RamDone
    \/ Plan

BatchNext ==
    \/ PlanNext
    \/ EnterLoop \/ StatusFails \/ Yield \/ LoadFails \/ Exhausted \/ NextChunk \/ Close

\* The planning of every call with positive controls, up to the plan.
PlanInit == BatchInit(PlanRam, PlanCtl, {TRUE}, {FALSE})
SpecPlan == PlanInit /\ [][PlanNext]_vars

\* The calls sized by ram_limit alone (or by nothing), on observations long
\* enough for the while loop of lines 166-169 to make several passes.  The
\* loop runs inside one next() with nothing to suspend it: once the call is at
\* the loop its next statement is executed, so the steps of the loop are
\* weakly fair.
SizingInit == BatchInitOn(1..MaxLoopSamps, PlanRam, {None}, {TRUE}, {FALSE})
RamSearchStep == RamLoop \/ RamLoopZeroDiv \/ RamDone
SpecSizing == SizingInit /\ [][PlanNext]_vars /\ WF_vars(RamSearchStep)

\* Calls iterated by a consumer.
IterInit == BatchInit(BatchRam, BatchCtl, BOOLEAN, BOOLEAN)
SpecBatch == IterInit /\ [][BatchNext]_vars

\* Two containers just created, each on any set of axes.
MergeInit ==
    /\ \E ta, oa \in [AxisNames -> Identities \cup {NoAxis}] :
         /\ target = create(ta)
         /\ other = create(oa)
    /\ merge_result = "none"
    /\ before = NoMerge
    /\ BatchIdle
    /\ IndexIdle
    /\ MainIdle

MergeNext == WrapTarget \/ WrapOther \/ Merge

SpecMerge == MergeInit /\ [][MergeNext]_vars

IndexInit ==
    /\ \E kind \in {"Exact", "Range"} : EmptyIndex(kind)
    /\ BatchIdle
    /\ MainIdle
    /\ MergeIdle

IndexNext == AddEntry \/ Query

SpecIndex == IndexInit /\ [][IndexNext]_vars

\* The index file an earlier run left (lines 107-110): one entry for each
\* obs_id of pre.
PriorIndex(pre) ==
    LET ids == SelectSeq([n \in 1..MaxObs |-> n], LAMBDA o : o \in pre)
    IN  /\ scheme = "Exact"
        /\ man_db = [n \in 1..Len(ids) |->
                        [key |-> ids[n], locator |-> FileOf(ids[n]), superseded |-> FALSE]]
        /\ add_result = "none"
        /\ last_call = [key |-> None, locator |-> NoLocator, replace |-> FALSE, db |-> <<>>]
        /\ latest = [o \in ObsIds |-> IF o \in pre THEN FileOf(o) ELSE NoLocator]
        /\ q_value = None
        /\ q_result = <<>>

\* The sequences of distinct obs_id the observation query (line 138) may return.
ObsLists ==
    {l \in UNION {[1..n -> ObsIds] : n \in 0..MaxObs} :
        \A m, n \in 1..Len(l) : m # n => l[m] # l[n]}

\* main at line 141: the observations are listed; the output files and the
\* index hold what earlier runs left (a group may be there without its entry,
\* and an entry without its group).
MainInit ==
    /\ obs_list \in ObsLists
    /\ overwrite \in BOOLEAN
    /\ saved \in SUBSET ObsIds
    /\ verbose \in Verbosities
    /\ \E pre \in SUBSET ObsIds : PriorIndex(pre)
    /\ entries_before = Len(man_db)
    /\ taken = 0
    /\ mpc = "for"
    /\ log = <<>>
    /\ processed = <<>>
    /\ BatchIdle
    /\ MergeIdle

MainNext ==
    \/ NextObs \/ LoopEnd \/ ReadStep \/ StepRaises \/ StepInterrupted
    \/ Save \/ AddIndexEntry \/ LogSaved \/ LogError \/ Continue

SpecMain == MainInit /\ [][MainNext]_vars

----------------------------------------------------------------------------
\* Properties of get_batch.

\* The size of a half-open <<start, stop>> chunk.
ChunkLen(c) == c[2] - c[1]

\* chunks are non-empty, contiguous, ascending and cover exactly [0, total).
IsPartition(chunks, total) ==
    /\ Len(chunks) >= 1
    /\ chunks[1][1] = 0
    /\ chunks[Len(chunks)][2] = total
    /\ \A c \in 1..Len(chunks) : chunks[c][1] < chunks[c][2]
    /\ \A c \in 1..(Len(chunks) - 1) : chunks[c][2] = chunks[c + 1][1]

NoExplicitLists == args.det_chunks = NoneList /\ args.samp_chunks = NoneList

\* Only n_dets was passed.
OnlyNDets ==
    /\ NoExplicitLists
    /\ args.ram_limit = None /\ args.n_det_chunks = None
    /\ args.n_samp_chunks = None /\ args.n_samps = None
    /\ args.n_dets # None

\* No control was passed.
NoControls ==
    /\ NoExplicitLists
    /\ args.ram_limit = None /\ args.n_det_chunks = None /\ args.n_dets = None
    /\ args.n_samp_chunks = None /\ args.n_samps = None

\* What C1 says of a call without explicit lists: the planning does not fail
\* and its two lists partition the two axes.
PlansPartition ==
    /\ err # "ZeroDivisionError"
    /\ pc = "planned" =>
         /\ IsPartition(loc.det_chunks, obs_dets)
         /\ IsPartition(loc.samp_chunks, obs_samps)
         /\ OnlyNDets =>
              /\ Len(loc.det_chunks) = CeilDiv(obs_dets, args.n_dets)
              /\ \A c \in 1..Len(loc.det_chunks) :
                   loc.det_chunks[c] =
                     <<(c - 1) * args.n_dets,
                       IF c = Len(loc.det_chunks) THEN obs_dets ELSE c * args.n_dets>>
              /\ loc.samp_chunks = << <<0, obs_samps>> >>
         /\ NoControls =>
              /\ loc.det_chunks = << <<0, obs_dets>> >>
              /\ loc.samp_chunks = << <<0, obs_samps>> >>

\* C1 as stated: for every observation size and every combination of positive
\* controls (explicit lists excluded), get_batch produces detector ranges that
\* are non-empty, contiguous, ascending and cover [0, total_dets), and sample
\* ranges that do the same for [0, total_samps).
C1_PositiveControlsPartition == NoExplicitLists => PlansPartition

\* C1 as amended: the same for every call whose ram_limit is absent or at least
\* BytesPerPoint; a smaller positive ram_limit ends in ZeroDivisionError.
C1_Partition ==
    (NoExplicitLists /\ (args.ram_limit = None \/ args.ram_limit >= BytesPerPoint))
        => PlansPartition

C1_Witness ==
    /\ pc = "planned"
    /\ NoExplicitLists
    /\ args.ram_limit >= BytesPerPoint
    /\ Len(loc.det_chunks) >= 2
    /\ Len(loc.samp_chunks) >= 2

\* C2: with ram_limit >= 4 given, every chunk of the plan holds at most
\* ram_limit / 4 sample points (detectors times samples).
C2_WithinRamLimit ==
    (pc = "planned" /\ args.ram_limit # None /\ args.ram_limit >= BytesPerPoint) =>
        \A d \in 1..Len(loc.det_chunks), s \in 1..Len(loc.samp_chunks) :
            BytesPerPoint * ChunkLen(loc.det_chunks[d]) * ChunkLen(loc.samp_chunks[s])
                <= args.ram_limit

\* The call with every control lower than ram_limit left out.
OnlyRam(a) ==
    [a EXCEPT !.n_det_chunks = None, !.n_samp_chunks = None, !.n_dets = None,
              !.n_samps = None, !.det_chunks = NoneList, !.samp_chunks = NoneList]

\* The call with only the detector chunk count (only the detector chunk size).
OnlyDetCount(a) == [OnlyRam(a) EXCEPT !.n_det_chunks = a.n_det_chunks]
OnlyDetSize(a) == [OnlyRam(a) EXCEPT !.n_dets = a.n_dets]
OnlySampCount(a) == [OnlyRam(a) EXCEPT !.n_samp_chunks = a.n_samp_chunks]
OnlySampSize(a) == [OnlyRam(a) EXCEPT !.n_samps = a.n_samps]

DetPlanOf(a) == PlanOf(a, obs_dets, obs_samps).L.det_chunks
SampPlanOf(a) == PlanOf(a, obs_dets, obs_samps).L.samp_chunks

\* C6: the plan of a call is the plan of the call that passes only its
\* highest-precedence control: ram_limit when given; otherwise, per axis, the
\* chunk count when given, else the chunk size when given. Controls of lower
\* precedence (and explicit lists) never change it, nor whether it fails.
C6_Precedence ==
    /\ (err = "ZeroDivisionError") =>
         PlanOf(OnlyRam(args), obs_dets, obs_samps).raised
    /\ pc = "planned" =>
         /\ args.ram_limit # None =>
              /\ ~PlanOf(OnlyRam(args), obs_dets, obs_samps).raised
              /\ loc.det_chunks = DetPlanOf(OnlyRam(args))
              /\ loc.samp_chunks = SampPlanOf(OnlyRam(args))
         /\ (args.ram_limit = None /\ args.n_det_chunks # None) =>
              loc.det_chunks = DetPlanOf(OnlyDetCount(args))
         /\ (args.ram_limit = None /\ args.n_det_chunks = None /\ args.n_dets # None) =>
              loc.det_chunks = DetPlanOf(OnlyDetSize(args))
         /\ (args.ram_limit = None /\ args.n_samp_chunks # None) =>
              loc.samp_chunks = SampPlanOf(OnlySampCount(args))
         /\ (args.ram_limit = None /\ args.n_samp_chunks = None /\ args.n_samps # None) =>
              loc.samp_chunks = SampPlanOf(OnlySampSize(args))

\* A call whose lower-precedence controls alone would have planned otherwise.
C6_Witness ==
    /\ pc = "planned"
    /\ args.ram_limit = None
    /\ args.n_det_chunks # None /\ args.n_dets # None /\ args.det_chunks # NoneList
    /\ DetPlanOf([args EXCEPT !.n_det_chunks = None]) # loc.det_chunks
    /\ DetPlanOf([args EXCEPT !.n_det_chunks = None, !.n_dets = None]) # loc.det_chunks

\* C7: without ram_limit, n_det_chunks = k with 1 <= k <= total_dets gives
\* exactly k detector ranges, and n_samp_chunks = k with 1 <= k <= total_samps
\* exactly k sample ranges.
C7_ExactChunkCount ==
    (pc = "planned" /\ args.ram_limit = None) =>
        /\ args.n_det_chunks \in 1..obs_dets =>
             Len(loc.det_chunks) = args.n_det_chunks
        /\ args.n_samp_chunks \in 1..obs_samps =>
             Len(loc.samp_chunks) = args.n_samp_chunks

\* C8: the chunks come in detector-major order: the j-th chunk handed out
\* (from 0) is (D[j div |S|], S[j mod |S|]), and a generator that has run to
\* its end has handed out |D| * |S| chunks.
C8_DetectorMajor ==
    LET D == loc.det_chunks
        S == loc.samp_chunks
    IN  /\ \A n \in 1..Len(yielded) :
              /\ n <= Len(D) * Len(S)
              /\ yielded[n] = <<D[((n - 1) \div Len(S)) + 1], S[((n - 1) % Len(S)) + 1]>>
        /\ pc = "finished" => Len(yielded) = Len(D) * Len(S)

C8_Witness ==
    /\ pc = "finished"
    /\ Len(loc.det_chunks) >= 2
    /\ Len(loc.samp_chunks) >= 2
    /\ Len(yielded) = Len(loc.det_chunks) * Len(loc.samp_chunks)

\* C9: no chunk is loaded ahead of its request: load_file has run at most once
\* per next(), and exactly once per next() whenever the generator waits at a
\* yield (never, in test mode); the session is closed before the first chunk
\* is handed out; a consumer that abandons the sequence leaves a generator
\* that has ended without an exception and has loaded only what it handed out.
C9_LazyAbandonable ==
    /\ loads <= requested
    /\ Len(yielded) <= requested
    /\ args.test => loads = 0
    /\ pc = "suspended" =>
         /\ Len(yielded) = requested
         /\ ~args.test => loads = requested
    /\ Len(yielded) > 0 => session = "closed"
    /\ pc = "closed" =>
         /\ err = "none"
         /\ ~args.test => loads = Len(yielded)

C9_Witness ==
    /\ pc = "closed"
    /\ ~args.test
    /\ Len(yielded) >= 1
    /\ Len(yielded) < Len(loc.det_chunks) * Len(loc.samp_chunks)
    /\ loads = Len(yielded)

\* The call was given a ram_limit of at least one sample point.
RamCoversOnePoint == args.ram_limit # None /\ args.ram_limit >= BytesPerPoint

\* While the while loop of lines 166-169 runs: samp_chunks has not passed the
\* number of samples, n_samps is positive, and the next pass divides by a
\* positive number.
RamSearchInRange ==
    /\ loc.n_samp_chunks >= 1
    /\ loc.n_samp_chunks <= obs_samps
    /\ loc.n_samps >= 1
    /\ loc.n_dets = 0 => ~RamLoopRaises(loc, obs_samps)

\* C11: with a ram_limit of at least 4 bytes and at least one sample, the RAM
\* sizing search never lets samp_chunks exceed total_samps, never divides by
\* zero, and after finitely many passes leaves the loop with a positive
\* dets_per_chunk.
C11_RamSearchTerminates ==
    /\ [](RamCoversOnePoint =>
            /\ err # "ZeroDivisionError"
            /\ pc = "ram_loop" => RamSearchInRange)
    /\ (RamCoversOnePoint /\ pc = "ram_loop")
         ~> (pc = "plan" /\ loc.n_dets >= 1 /\ loc.n_samp_chunks <= obs_samps)

\* The search has ended after at least three passes over a long observation.
C11_Witness ==
    /\ RamCoversOnePoint
    /\ pc = "plan"
    /\ obs_samps >= 4
    /\ loc.n_samp_chunks >= 4
    /\ loc.n_dets >= 1

----------------------------------------------------------------------------
\* Properties of the manifest index.

\* C4: a query on a Range-keyed index returns exactly the live entries whose
\* half-open range [low, high) holds the value, each once, narrower ranges
\* first and, among equal widths, the most recently inserted first; it returns
\* the empty sequence when no entry matches. With [0,100) then [50,150)
\* inserted, 75 returns both, the second first, and 200 returns nothing.
C4_RangeQuery ==
    (scheme = "Range" /\ q_value # None) =>
        LET hits == {n \in 1..Len(man_db) :
                        /\ ~man_db[n].superseded
                        /\ man_db[n].key[1] <= q_value
                        /\ q_value < man_db[n].key[2]}
            width(n) == man_db[n].key[2] - man_db[n].key[1]
        IN  /\ {q_result[n] : n \in 1..Len(q_result)} = hits
            /\ Len(q_result) = Cardinality(hits)
            /\ \A m, n \in 1..Len(q_result) :
                 m < n => \/ width(q_result[m]) < width(q_result[n])
                          \/ /\ width(q_result[m]) = width(q_result[n])
                             /\ q_result[m] > q_result[n]
            /\ hits = {} => q_result = <<>>
            /\ ( /\ Len(man_db) = 2
                 /\ man_db[1].key = <<0, 100>> /\ man_db[2].key = <<50, 150>> ) =>
                   /\ q_value = 75 => q_result = <<2, 1>>
                   /\ q_value = 200 => q_result = <<>>

C4_Witness ==
    /\ scheme = "Range"
    /\ Len(man_db) = 2
    /\ man_db[1].key = <<0, 100>> /\ man_db[2].key = <<50, 150>>
    /\ q_value = 75
    /\ q_result = <<2, 1>>

\* C5: on an Exact-keyed index an add_entry whose key is already there fails
\* with DuplicateEntryError and leaves the index as it was when replace is
\* false, and supersedes the prior entry when replace is true; so the first
\* result of a query for a key is the locator of the last successful
\* add_entry for that key, and no superseded entry is ever returned.
C5_ExactLatest ==
    scheme = "Exact" =>
        LET had == {n \in Live(last_call.db) : last_call.db[n].key = last_call.key}
        IN  /\ add_result = "DuplicateEntryError" =>
                 /\ man_db = last_call.db
                 /\ had # {}
                 /\ ~last_call.replace
            /\ add_result = "ok" =>
                 /\ had # {} => last_call.replace
                 /\ Len(man_db) = Len(last_call.db) + 1
                 /\ \A n \in had : man_db[n].superseded
            /\ \A key \in ObsIds :
                 LET ms == Matches(scheme, man_db, key)
                     r == query(scheme, man_db, key)
                 IN  /\ \A n \in 1..Len(ms) : ~man_db[ms[n]].superseded
                     /\ IF latest[key] = NoLocator THEN r = <<>>
                        ELSE r # <<>> /\ r[1] = latest[key]

C5_Witness ==
    /\ scheme = "Exact"
    /\ add_result = "ok"
    /\ last_call.replace
    /\ \E n \in 1..Len(man_db) :
         /\ man_db[n].superseded
         /\ man_db[n].key = last_call.key
         /\ man_db[n].locator # last_call.locator
    /\ query(scheme, man_db, last_call.key) = <<last_call.locator>>

----------------------------------------------------------------------------
\* Properties of make_level3_hk.main.

\* The statements of the try block (lines 144-179).
TrySteps == {"get_meta", "get_obs", "make_hkaman", "wrap", "save", "add_entry",
             "log_saved"}

\* The steps of an observation the claim lists: metadata resolution, loading,
\* wrapping, save and add_entry.
ListedSteps == {"get_meta", "get_obs", "make_hkaman", "wrap", "save", "add_entry"}

WrittenByRun == {n \in 1..Len(man_db) : n > entries_before}

\* The step by which a statement of the try block before add_entry (line 177)
\* fails: to the except clause, or out of main.
FailsBeforeAddEntry ==
    /\ mpc \in {"get_meta", "get_obs", "make_hkaman", "wrap", "save"}
    /\ mpc' \in {"except", "aborted"}

\* C12: add_entry is reached only once the save of the observation's group has
\* returned; every index entry the run has written is for an obs_id whose
\* group is saved, under that observation's file; the index changes only at
\* add_entry, and an observation that fails before add_entry leaves the index
\* as it was.
C12_EntryOnlyAfterSave ==
    /\ [](/\ mpc = "add_entry" => obs_id \in saved
          /\ entries_before <= Len(man_db)
          /\ \A n \in WrittenByRun :
               /\ man_db[n].key \in saved
               /\ man_db[n].locator = FileOf(man_db[n].key))
    /\ [][/\ man_db' # man_db => mpc = "add_entry" /\ obs_id \in saved
          /\ FailsBeforeAddEntry => UNCHANGED <<man_db, latest>>]_vars

\* A finished run that saved and indexed one observation and in which another
\* failed before its group was saved, leaving no entry for it.
C12_Witness ==
    /\ mpc = "done"
    /\ \E n, m \in 1..Len(log) :
         /\ log[n][2] = "saved"
         /\ log[n][1] \in saved
         /\ \E e \in WrittenByRun : man_db[e].key = log[n][1]
         /\ log[m][2] = "error"
         /\ log[m][1] \notin saved
         /\ latest[log[m][1]] = NoLocator

----------------------------------------------------------------------------
\* Properties of the container's merge.

\* A field name both containers hold with content that is not bit-identical.
HeldDiffering(t, o) ==
    {f \in FieldNames :
        t.fields[f] # NoField /\ o.fields[f] # NoField /\ t.fields[f] # o.fields[f]}

====
